---- MODULE Spec2Model ----
(***************************************************************************)
(* Model of the GAK ticket watch (src/tickets): the sample store of        *)
(* lib/db.py, the correction ladder, the velocity windows, the season      *)
(* ranking and the charts of ticket-fetch.py and lib/graph.py.             *)
(*                                                                         *)
(* Time.  A Python datetime is a record [year, month, day, sec] (sec is    *)
(* the second of the day); Instant maps it to seconds on one linear axis,  *)
(* which is how naive datetimes compare and subtract.  A hours value       *)
(* (h_diff = total_seconds() / 3600) is kept as its number of seconds, so  *)
(* the literal 74.20 hours is 7420 * 36 seconds.                           *)
(***************************************************************************)
EXTENDS Integers, Sequences, FiniteSets, TLC

VARIABLES
    events,     \* table EVENTS, rows in rowid order
    entries,    \* table ENTRIES, rows in rowid order
    pc,         \* position of one run of main(): "ingest" or "done"
    page,       \* what generate_page computed and returned in this run
    arg,        \* arguments of a function applied on its own
    ret         \* its result

vars == <<events, entries, pc, page, arg, ret>>

(***************************************************************************)
(* Bounds                                                                  *)
(***************************************************************************)
\* distance, in seconds and in tickets, explored around each threshold
MaxDelta == 1

(***************************************************************************)
(* Calendar (datetime.datetime)                                            *)
(***************************************************************************)
IsLeap(y) == (y % 4 = 0) /\ ((y % 100 # 0) \/ (y % 400 = 0))

DaysBeforeYear(y) ==
    LET p == y - 1 IN p * 365 + (p \div 4) - (p \div 100) + (p \div 400)

DaysInMonth(y, m) ==
    IF m = 2 THEN (IF IsLeap(y) THEN 29 ELSE 28)
    ELSE IF m \in {4, 6, 9, 11} THEN 30 ELSE 31

DaysBeforeMonth(y, m) ==
    <<0, 31, 59, 90, 120, 151, 181, 212, 243, 273, 304, 334>>[m]
        + (IF m > 2 /\ IsLeap(y) THEN 1 ELSE 0)

ToOrdinal(y, m, d) == DaysBeforeYear(y) + DaysBeforeMonth(y, m) + d

\* datetime.datetime(y, mo, d, h, mi, s)
DT(y, mo, d, h, mi, s) ==
    [year |-> y, month |-> mo, day |-> d, sec |-> h * 3600 + mi * 60 + s]

\* seconds since 2023-01-01 00:00:00 of the wall-clock fields of dt
Instant(dt) ==
    (ToOrdinal(dt.year, dt.month, dt.day) - ToOrdinal(2023, 1, 1)) * 86400 + dt.sec

\* a number of hundredths of an hour (74.20 -> 7420), in seconds
Hours100(x) == x * 36

(***************************************************************************)
(* Stored date texts and dateutil.parser.parse                             *)
(*   valid  : the text parses                                              *)
(*   dt     : its wall-clock fields                                        *)
(*   aware  : the text carries a zone offset                               *)
(*   utcoff : that offset in seconds                                       *)
(***************************************************************************)
Text(dt, aware, utcoff) ==
    [valid |-> TRUE, dt |-> dt, aware |-> aware, utcoff |-> utcoff]

Naive(dt) == Text(dt, FALSE, 0)
Utc(dt) == Text(dt, TRUE, 0)

\* a text dateutil cannot parse (it raises ParserError)
BadText == [valid |-> FALSE, dt |-> DT(2023, 1, 1, 0, 0, 0), aware |-> FALSE, utcoff |-> 0]

(***************************************************************************)
(* Correction ladder                                                       *)
(***************************************************************************)
ID_456 == "456e9a8a-ce64-4580-b9e0-3405a810c696"
ID_aee == "aeee2d94-edae-4a6d-a65c-f2ae274361ef"
ID_2e9 == "2e9e16ba-e8c3-409e-8c41-d7e6ddfaab40"
ID_other == "00000000-0000-0000-0000-000000000001"

\* the ladder with its last rung an elif of the one before
apply_ticket_corrections_elif(event_id, tickets_sold, h_diff) ==
    LET s1 == IF event_id = ID_456 /\ tickets_sold >= 2302
              THEN tickets_sold - 1939 ELSE tickets_sold
        s2 == IF event_id = ID_aee /\ s1 >= 5100 /\ h_diff > Hours100(7420)
              THEN s1 - 285 ELSE s1
    IN  IF event_id = ID_2e9 /\ h_diff < Hours100(9635) THEN s2 + 296 + 285
        ELSE IF event_id = ID_2e9 /\ h_diff < Hours100(4980) THEN s2 + 2333
        ELSE s2

\* the ladder with a first rung that does not look at the event id
apply_ticket_corrections_any_id(event_id, tickets_sold, h_diff) ==
    LET s1 == IF tickets_sold >= 2302 THEN tickets_sold - 1939 ELSE tickets_sold
        s2 == IF event_id = ID_aee /\ s1 >= 5100 /\ h_diff > Hours100(7420)
              THEN s1 - 285 ELSE s1
        s3 == IF event_id = ID_2e9 /\ h_diff < Hours100(9635)
              THEN s2 + 296 + 285 ELSE s2
        s4 == IF event_id = ID_2e9 /\ h_diff < Hours100(4980)
              THEN s3 + 2333 ELSE s3
    IN  s4

\* each rung tests and rewrites the running value of tickets_sold
apply_ticket_corrections(event_id, tickets_sold, h_diff) ==
    LET s1 == IF event_id = ID_456 /\ tickets_sold >= 2302
              THEN tickets_sold - 1939 ELSE tickets_sold
        s2 == IF event_id = ID_aee /\ s1 >= 5100 /\ h_diff > Hours100(7420)
              THEN s1 - 285 ELSE s1
        s3 == IF event_id = ID_2e9 /\ h_diff < Hours100(9635)
              THEN s2 + 296 + 285 ELSE s2
        s4 == IF event_id = ID_2e9 /\ h_diff < Hours100(4980)
              THEN s3 + 2333 ELSE s3
    IN  s4

(***************************************************************************)
(* Idle values of the variables a specification does not use               *)
(***************************************************************************)
NoRet == [done |-> FALSE]
NoArg == [fn |-> "none"]
NoPage == [written |-> FALSE]

StoreIdle == events = <<>> /\ entries = <<>> /\ pc = "idle" /\ page = NoPage

(***************************************************************************)
(* SpecCorr: apply_ticket_corrections applied to every input around its    *)
(* thresholds                                                              *)
(***************************************************************************)
Around(S) == UNION {(x - MaxDelta)..(x + MaxDelta) : x \in S}

CorrIds == {ID_456, ID_aee, ID_2e9, ID_other}
CorrSold == Around({0, 2302, 2302 + 1939, 5100, 5100 + 285}) \ {-1}
CorrHours == Around({0, Hours100(4980), Hours100(7420), Hours100(9635)})

InitCorr ==
    /\ StoreIdle
    /\ arg \in [fn : {"apply_ticket_corrections"}, event_id : CorrIds,
                tickets_sold : CorrSold, h_diff : CorrHours]
    /\ ret = NoRet

Correct ==
    /\ arg.fn = "apply_ticket_corrections"
    /\ ~ret.done
    /\ ret' = [done |-> TRUE,
               val |-> apply_ticket_corrections(arg.event_id, arg.tickets_sold, arg.h_diff)]
    /\ UNCHANGED <<events, entries, pc, page, arg>>

SpecCorr == InitCorr /\ [][Correct]_vars

\* The rule table of the correction engine: rule i applies to RuleId(i),
\* under RuleGuard(i, raw, h), and adds RuleDelta(i).
RuleIds == <<ID_456, ID_aee, ID_2e9, ID_2e9>>
RuleCount == Len(RuleIds)
RuleId(i) == RuleIds[i]
RuleDelta(i) == <<-1939, -285, 296 + 285, 2333>>[i]
RuleGuard(i, raw, h) ==
    CASE i = 1 -> raw >= 2302
      [] i = 2 -> raw >= 5100 /\ h > Hours100(7420)
      [] i = 3 -> h < Hours100(9635)
      [] i = 4 -> h < Hours100(4980)

RECURSIVE SumDeltas(_, _, _, _)
SumDeltas(i, id, raw, h) ==
    IF i = 0 THEN 0
    ELSE SumDeltas(i - 1, id, raw, h)
         + (IF RuleId(i) = id /\ RuleGuard(i, raw, h) THEN RuleDelta(i) ELSE 0)

\* C1: the corrected count is the raw count plus the deltas of all rules of the
\* event whose guard holds on the raw count and the given hours; for event
\* 2e9e16ba-... below 49.8 hours that is raw + 296 + 285 + 2333.
C1_CorrectionIsSumOfDeltas ==
    ret.done =>
        /\ ret.val = arg.tickets_sold
                     + SumDeltas(RuleCount, arg.event_id, arg.tickets_sold, arg.h_diff)
        /\ (arg.event_id = ID_2e9 /\ arg.h_diff < Hours100(4980)) =>
               ret.val = arg.tickets_sold + 296 + 285 + 2333

C1_Witness ==
    /\ ret.done
    /\ arg.event_id = ID_2e9
    /\ arg.h_diff = Hours100(4980) - 1
    /\ arg.tickets_sold = 2302
    /\ ret.val = 2302 + 2914

\* no rule of the table applies: none names the id, or the guards of those
\* that do are all false
NoRuleMatches(id, raw, h) ==
    \A i \in 1..RuleCount : RuleId(i) = id => ~RuleGuard(i, raw, h)

\* C17: when no rule matches the event id and (raw sold, hours) combination,
\* apply_ticket_corrections returns the raw sold count unchanged.
C17_NoRuleUnchanged ==
    (ret.done /\ NoRuleMatches(arg.event_id, arg.tickets_sold, arg.h_diff))
        => ret.val = arg.tickets_sold

\* a known id with every guard false: 5100 sold at exactly 74.20 hours
C17_Witness ==
    /\ ret.done
    /\ arg.event_id = ID_aee
    /\ arg.tickets_sold = 5100
    /\ arg.h_diff = Hours100(7420)
    /\ ret.val = 5100

(***************************************************************************)
(* Sales velocity of one event (generate_page, lines 236-273)              *)
(* An ENTRIES row is [match, sold, avail, timestamp].                      *)
(***************************************************************************)
Entry(id, sold, avail, ts) ==
    [match |-> id, sold |-> sold, avail |-> avail, timestamp |-> ts]

\* the (ts, sold) tuples of the rows whose timestamp parses, zone stripped
RECURSIVE parse_timestamps(_)
parse_timestamps(rows) ==
    IF rows = <<>> THEN <<>>
    ELSE LET ent == Head(rows)
             rest == parse_timestamps(Tail(rows))
         IN  IF ent.timestamp.valid
             THEN <<[t |-> ent.timestamp.dt, s |-> ent.sold]>> \o rest
             ELSE rest

\* tuple order of (datetime, int)
TupleLess(a, b) ==
    \/ Instant(a.t) < Instant(b.t)
    \/ Instant(a.t) = Instant(b.t) /\ a.s < b.s

RECURSIVE InsertTuple(_, _)
InsertTuple(x, sorted) ==
    IF sorted = <<>> THEN <<x>>
    ELSE IF TupleLess(x, Head(sorted)) THEN <<x>> \o sorted
    ELSE <<Head(sorted)>> \o InsertTuple(x, Tail(sorted))

\* timestamps.sort()
RECURSIVE SortTuples(_)
SortTuples(ts) ==
    IF ts = <<>> THEN <<>>
    ELSE InsertTuple(ts[Len(ts)], SortTuples(SubSeq(ts, 1, Len(ts) - 1)))

RECURSIVE SeqMax(_)
SeqMax(q) ==
    IF Len(q) = 1 THEN q[1]
    ELSE LET m == SeqMax(Tail(q)) IN IF q[1] >= m THEN q[1] ELSE m

RECURSIVE SeqMin(_)
SeqMin(q) ==
    IF Len(q) = 1 THEN q[1]
    ELSE LET m == SeqMin(Tail(q)) IN IF q[1] <= m THEN q[1] ELSE m

\* [s for t, s in timestamps if t >= window_ago]
RECURSIVE window_entries(_, _)
window_entries(timestamps, window_ago) ==
    IF timestamps = <<>> THEN <<>>
    ELSE LET rest == window_entries(Tail(timestamps), window_ago)
         IN  IF Instant(Head(timestamps).t) >= window_ago
             THEN <<Head(timestamps).s>> \o rest
             ELSE rest

\* the window taken in hours instead of minutes
get_sold_in_window_hours(timestamps, now, window_minutes) ==
    LET w == window_entries(timestamps, Instant(now) - window_minutes * 3600)
    IN  IF Len(w) >= 2 THEN SeqMax(w) - SeqMin(w) ELSE 0

\* the window open at its start (t > window_ago)
get_sold_in_window_open(timestamps, now, window_minutes) ==
    LET w == window_entries(timestamps, Instant(now) - window_minutes * 60 + 1)
    IN  IF Len(w) >= 2 THEN SeqMax(w) - SeqMin(w) ELSE 0

\* newest minus oldest sample of the window
get_sold_in_window_last_first(timestamps, now, window_minutes) ==
    LET w == window_entries(timestamps, Instant(now) - window_minutes * 60)
    IN  IF Len(w) >= 2 THEN w[Len(w)] - w[1] ELSE 0

get_sold_in_window(timestamps, now, window_minutes) ==
    LET w == window_entries(timestamps, Instant(now) - window_minutes * 60)
    IN  IF Len(w) >= 2 THEN SeqMax(w) - SeqMin(w) ELSE 0

\* velocity_parts listing a window whatever its figure
VelocityParts_all(day, hour, ten) ==
    <<[window |-> 1440, sold |-> day], [window |-> 60, sold |-> hour],
      [window |-> 10, sold |-> ten]>>

\* velocity_parts: the windows with a positive figure, day, hour, 10 minutes
VelocityParts(day, hour, ten) ==
    (IF day > 0 THEN <<[window |-> 1440, sold |-> day]>> ELSE <<>>)
    \o (IF hour > 0 THEN <<[window |-> 60, sold |-> hour]>> ELSE <<>>)
    \o (IF ten > 0 THEN <<[window |-> 10, sold |-> ten]>> ELSE <<>>)

\* the block "Calculate sales velocity" for the rows of one event:
\*   computed : get_sold_in_window was defined and called
\*   shown    : event_data got the key "velocity"
Velocity(rows, now) ==
    LET timestamps == SortTuples(parse_timestamps(rows))
        computed == Len(rows) >= 2 /\ Len(timestamps) >= 2
        ten == IF computed THEN get_sold_in_window(timestamps, now, 10) ELSE 0
        hour == IF computed THEN get_sold_in_window(timestamps, now, 60) ELSE 0
        day == IF computed THEN get_sold_in_window(timestamps, now, 1440) ELSE 0
        parts == VelocityParts(day, hour, ten)
    IN  [computed |-> computed,
         ten_min_sold |-> ten, one_hour_sold |-> hour, one_day_sold |-> day,
         shown |-> computed /\ parts # <<>>,
         velocity |-> parts]

(***************************************************************************)
(* The store (lib/db.py).  An EVENTS row is                                *)
(* [id, title, datetime, sellfrom, sellto]; both tables are sequences in   *)
(* rowid order, the order SELECT * returns them in.                        *)
(***************************************************************************)
EventRow(event) ==
    [id |-> event.id, title |-> event.title, datetime |-> event.dateTimeFrom,
     sellfrom |-> event.publiclyAvailableFrom,
     sellto |-> event.publiclyAvailableTo]

HasEvent(evs, id) == \E i \in 1..Len(evs) : evs[i].id = id

\* INSERT OR IGNORE INTO EVENTS: the primary key keeps the first row of an id
insert_or_ignore_event(evs, event) ==
    IF HasEvent(evs, event.id) THEN evs ELSE Append(evs, EventRow(event))

\* an insert that overwrites the last sample of the table when it is one of
\* the same event
insert_entry_upsert(ents, entry, current_timestamp) ==
    IF ents # <<>> /\ ents[Len(ents)].match = entry.id
    THEN [ents EXCEPT ![Len(ents)] =
             Entry(entry.id, entry.sold, entry.avail, current_timestamp)]
    ELSE Append(ents, Entry(entry.id, entry.sold, entry.avail, current_timestamp))

\* INSERT INTO ENTRIES (MATCH, SOLD, AVAILABLE); TIMESTAMP is CURRENT_TIMESTAMP
insert_entry(ents, entry, current_timestamp) ==
    Append(ents, Entry(entry.id, entry.sold, entry.avail, current_timestamp))

get_events(evs) == evs

RECURSIVE get_entries_for_event(_, _)
get_entries_for_event(ents, event_id) ==
    IF ents = <<>> THEN <<>>
    ELSE LET rest == get_entries_for_event(Tail(ents), event_id)
         IN  IF Head(ents).match = event_id THEN <<Head(ents)>> \o rest ELSE rest

(***************************************************************************)
(* generate_mini_graph: the sparkline of one event.  The payload is the    *)
(* plotted series; img = FALSE is None.                                    *)
(***************************************************************************)
NoImg == [img |-> FALSE, hours |-> <<>>, sold |-> <<>>]

\* hours and corrected sold counts of the rows whose timestamp parses; both
\* times are stripped of their zone before the subtraction
RECURSIVE mini_series(_, _, _)
mini_series(event_id, event_time, rows) ==
    IF rows = <<>> THEN <<>>
    ELSE LET entry == Head(rows)
             rest == mini_series(event_id, event_time, Tail(rows))
             h_diff == Instant(event_time) - Instant(entry.timestamp.dt)
         IN  IF entry.timestamp.valid
             THEN <<[h |-> h_diff,
                     s |-> apply_ticket_corrections(event_id, entry.sold, h_diff)]>>
                  \o rest
             ELSE rest

RECURSIVE filter_hours(_, _)
filter_hours(series, limit) ==
    IF series = <<>> THEN <<>>
    ELSE LET rest == filter_hours(Tail(series), limit)
         IN  IF Head(series).h <= limit THEN <<Head(series)>> \o rest ELSE rest

generate_mini_graph(event_id, event_time, ents) ==
    LET rows == get_entries_for_event(ents, event_id)
        series == mini_series(event_id, event_time, rows)
        filtered == filter_hours(series, 300 * 3600)
    IN  IF rows = <<>> \/ series = <<>> \/ filtered = <<>> THEN NoImg
        ELSE [img |-> TRUE,
              hours |-> [i \in 1..Len(filtered) |-> filtered[i].h],
              sold |-> [i \in 1..Len(filtered) |-> filtered[i].s]]

(***************************************************************************)
(* get_events_for_graph and generate_graph (lib/graph.py): the overlay.    *)
(* The query compares the DATETIME texts as strings with DATE('now'): a    *)
(* text of an earlier day is smaller, a text of today or later, and a text *)
(* that is no date, is greater.                                            *)
(***************************************************************************)
Midnight(now) == [now EXCEPT !.sec = 0]

TextBeforeToday(text, now) ==
    text.valid /\ Instant(text.dt) < Instant(Midnight(now))

TextAfterToday(text, now) == ~TextBeforeToday(text, now)

\* ORDER BY datetime, on the texts
TextLess(a, b) ==
    \/ a.valid /\ ~b.valid
    \/ a.valid /\ b.valid /\ Instant(a.dt) < Instant(b.dt)

\* ids of the events the query may select as "SELECT match FROM entries
\* ORDER BY sold DESC LIMIT 1": the match of any row with the highest sold
BestSellers(ents) ==
    {ents[i].match : i \in {j \in 1..Len(ents) :
                               \A k \in 1..Len(ents) : ents[k].sold <= ents[j].sold}}

\* rows the query may select as the latest event before today
LatestPast(evs, now) ==
    {i \in 1..Len(evs) :
        /\ TextBeforeToday(evs[i].datetime, now)
        /\ \A k \in 1..Len(evs) :
              TextBeforeToday(evs[k].datetime, now)
                  => ~TextLess(evs[i].datetime, evs[k].datetime)}

RECURSIVE InsertByText(_, _)
InsertByText(row, sorted) ==
    IF sorted = <<>> THEN <<row>>
    ELSE IF TextLess(row.datetime, Head(sorted).datetime) THEN <<row>> \o sorted
    ELSE <<Head(sorted)>> \o InsertByText(row, Tail(sorted))

RECURSIVE SortByText(_)
SortByText(rows) ==
    IF rows = <<>> THEN <<>>
    ELSE InsertByText(rows[Len(rows)], SortByText(SubSeq(rows, 1, Len(rows) - 1)))

RECURSIVE SelectRows(_, _)
SelectRows(evs, picked) ==
    IF evs = <<>> THEN <<>>
    ELSE LET rest == SelectRows(Tail(evs), picked)
         IN  IF Head(evs).id \in picked THEN <<Head(evs)>> \o rest ELSE rest

\* the results the query may return, one per choice the LIMIT 1 leaves open
get_events_for_graph(evs, ents, now) ==
    LET best == IF ents = <<>> THEN {"-"} ELSE BestSellers(ents)
        past == IF LatestPast(evs, now) = {} THEN {0} ELSE LatestPast(evs, now)
        future == {evs[i].id : i \in {j \in 1..Len(evs) :
                                         TextAfterToday(evs[j].datetime, now)}}
    IN  {SortByText(SelectRows(evs,
            {b} \cup (IF p = 0 THEN {} ELSE {evs[p].id}) \cup future))
         : b \in best, p \in past}

\* parsed_events: the rows whose three dates parse
RECURSIVE parsed_graph_events(_)
parsed_graph_events(rows) ==
    IF rows = <<>> THEN <<>>
    ELSE LET entry == Head(rows)
             rest == parsed_graph_events(Tail(rows))
         IN  IF entry.datetime.valid /\ entry.sellfrom.valid /\ entry.sellto.valid
             THEN <<entry>> \o rest
             ELSE rest

\* the correction block with the first threshold excluded
graph_corrections_above(event_id, tickets_sold, h_diff) ==
    LET s1 == IF event_id = ID_456 /\ tickets_sold > 2302
              THEN tickets_sold - 1939 ELSE tickets_sold
        s2 == IF event_id = ID_aee /\ s1 >= 5100 /\ h_diff > Hours100(7420)
              THEN s1 - 285 ELSE s1
        s3 == IF event_id = ID_2e9 /\ h_diff < Hours100(9635)
              THEN s2 + 296 + 285 ELSE s2
        s4 == IF event_id = ID_2e9 /\ h_diff < Hours100(4980)
              THEN s3 + 2333 ELSE s3
    IN  s4

\* the correction block of draw_graph in the legacy ticket-check.py
draw_graph_corrections(event_id, tickets_sold, h_diff) ==
    LET s1 == IF event_id = ID_456 /\ tickets_sold >= 2302
              THEN tickets_sold - 1939 ELSE tickets_sold
        s2 == IF event_id = ID_aee /\ s1 >= 5100 /\ h_diff > Hours100(7420)
              THEN s1 - 285 ELSE s1
        s3 == IF event_id = ID_2e9 /\ h_diff < Hours100(9635)
              THEN s2 + 296 + 285 ELSE s2
        s4 == IF event_id = ID_2e9 /\ h_diff < Hours100(4980)
              THEN s3 + 2333 ELSE s3
    IN  s4

\* the correction block of generate_graph
graph_corrections(event_id, tickets_sold, h_diff) ==
    LET s1 == IF event_id = ID_456 /\ tickets_sold >= 2302
              THEN tickets_sold - 1939 ELSE tickets_sold
        s2 == IF event_id = ID_aee /\ s1 >= 5100 /\ h_diff > Hours100(7420)
              THEN s1 - 285 ELSE s1
        s3 == IF event_id = ID_2e9 /\ h_diff < Hours100(9635)
              THEN s2 + 296 + 285 ELSE s2
        s4 == IF event_id = ID_2e9 /\ h_diff < Hours100(4980)
              THEN s3 + 2333 ELSE s3
    IN  s4

\* hours and sold of one event; the sample time is tagged UTC, the event time
\* is used as parsed (this is evaluated for zone-aware event times only)
RECURSIVE graph_series(_, _)
graph_series(event, rows) ==
    IF rows = <<>> THEN <<>>
    ELSE LET entry == Head(rows)
             rest == graph_series(event, Tail(rows))
             h_diff == (Instant(event.datetime.dt) - event.datetime.utcoff)
                       - Instant(entry.timestamp.dt)
         IN  IF entry.timestamp.valid
             THEN <<[h |-> h_diff,
                     s |-> graph_corrections(event.id, entry.sold, h_diff)]>> \o rest
             ELSE rest

\* event['time'] - tickets['time'] raises TypeError when the event time has no
\* zone: the first sample that parses of such an event ends the function
graph_raises(parsed, ents) ==
    \E i \in 1..Len(parsed) :
        /\ ~parsed[i].datetime.aware
        /\ \E k \in 1..Len(ents) :
              ents[k].match = parsed[i].id /\ ents[k].timestamp.valid

RECURSIVE graph_lines(_, _)
graph_lines(parsed, ents) ==
    IF parsed = <<>> THEN <<>>
    ELSE LET event == Head(parsed)
             series == graph_series(event, get_entries_for_event(ents, event.id))
             rest == graph_lines(Tail(parsed), ents)
         IN  IF series # <<>>
             THEN <<[label |-> event.title,
                     id |-> event.id,
                     hours |-> [i \in 1..Len(series) |-> series[i].h],
                     sold |-> [i \in 1..Len(series) |-> series[i].s]]>> \o rest
             ELSE rest

NoGraph == [img |-> FALSE, lines |-> <<>>]

\* generate_graph on the rows the query returned
generate_graph(selected, ents) ==
    LET parsed == parsed_graph_events(selected)
    IN  IF selected = <<>> \/ parsed = <<>> THEN NoGraph
        ELSE IF graph_raises(parsed, ents) THEN NoGraph
        ELSE IF graph_lines(parsed, ents) = <<>> THEN NoGraph
        ELSE [img |-> TRUE, lines |-> graph_lines(parsed, ents)]

(***************************************************************************)
(* generate_page                                                           *)
(***************************************************************************)
\* events: the future events that have samples, each with its latest row
\* (the last one returned) and, when a window has a positive figure, its
\* velocity
RECURSIVE future_events(_, _, _)
future_events(events_data, ents, now) ==
    IF events_data = <<>> THEN <<>>
    ELSE LET entry == Head(events_data)
             rest == future_events(Tail(events_data), ents, now)
             event_time == entry.datetime.dt
             rows == get_entries_for_event(ents, entry.id)
             latest == rows[Len(rows)]
             v == Velocity(rows, now)
         IN  IF ~entry.datetime.valid THEN rest
             ELSE IF Instant(event_time) < Instant(now) THEN rest
             ELSE IF rows = <<>> THEN rest
             ELSE <<[title |-> entry.title, id |-> entry.id,
                     sold |-> latest.sold, avail |-> latest.avail,
                     has_velocity |-> v.shown, velocity |-> v.velocity]>> \o rest

\* season start taken as July 1 of the current year from July excluded on
season_start_late(now) ==
    IF now.month <= 7 THEN DT(now.year - 1, 7, 1, 0, 0, 0)
    ELSE DT(now.year, 7, 1, 0, 0, 0)

season_start(now) ==
    IF now.month < 7 THEN DT(now.year - 1, 7, 1, 0, 0, 0)
    ELSE DT(now.year, 7, 1, 0, 0, 0)

\* title.split(" : ", 1)[1] when the title holds " : "
AwayTeam(title) ==
    CASE title = "GAK 1902 : SK Sturm Graz" -> "SK Sturm Graz"
      [] title = "GAK 1902 : LASK" -> "LASK"
      [] title = "GAK 1902 : FC Blau-Weiss Linz" -> "FC Blau-Weiss Linz"
      [] title = "GAK 1902 : WAC" -> "WAC"
      [] title = "GAK 1902 : SV Ried" -> "SV Ried"
      [] title = "GAK 1902 : SCR Altach" -> "SCR Altach"
      [] OTHER -> title

\* event_time.strftime('%Y-%m-%d'), as a number that orders like the string
StrfDate(dt) == dt.year * 10000 + dt.month * 100 + dt.day

\* the season test with the season start excluded
in_season_open(event_time, now, start) ==
    ~(Instant(event_time) >= Instant(now) \/ Instant(event_time) <= Instant(start))

in_season(event_time, now, start) ==
    ~(Instant(event_time) >= Instant(now) \/ Instant(event_time) < Instant(start))

\* past_events before ranking: the season's events that have samples
RECURSIVE season_events(_, _, _, _)
season_events(events_data, ents, now, start) ==
    IF events_data = <<>> THEN <<>>
    ELSE LET entry == Head(events_data)
             rest == season_events(Tail(events_data), ents, now, start)
             event_time == entry.datetime.dt
             rows == get_entries_for_event(ents, entry.id)
             latest == rows[Len(rows)]
         IN  IF ~entry.datetime.valid THEN rest
             ELSE IF ~in_season(event_time, now, start) THEN rest
             ELSE IF rows = <<>> THEN rest
             ELSE <<[title |-> AwayTeam(entry.title),
                     date |-> StrfDate(event_time),
                     sold |-> latest.sold,
                     graph |-> generate_mini_graph(entry.id, event_time, ents),
                     event_id |-> entry.id,
                     rank |-> 0,
                     top_performer |-> FALSE]>> \o rest

\* insertion behind the elements whose key is not smaller: a stable
\* descending sort, as list.sort(key=..., reverse=True) is
RECURSIVE InsertBySold(_, _)
InsertBySold(x, sorted) ==
    IF sorted = <<>> THEN <<x>>
    ELSE IF x.sold > Head(sorted).sold THEN <<x>> \o sorted
    ELSE <<Head(sorted)>> \o InsertBySold(x, Tail(sorted))

RECURSIVE InsertFirstBySold(_, _)
InsertFirstBySold(x, sorted) ==
    IF sorted = <<>> THEN <<x>>
    ELSE IF x.sold >= Head(sorted).sold THEN <<x>> \o sorted
    ELSE <<Head(sorted)>> \o InsertFirstBySold(x, Tail(sorted))

\* a descending sort that reverses the elements of equal sold
RECURSIVE sort_by_sold_unstable(_)
sort_by_sold_unstable(list) ==
    IF list = <<>> THEN <<>>
    ELSE InsertFirstBySold(list[Len(list)],
                           sort_by_sold_unstable(SubSeq(list, 1, Len(list) - 1)))

\* past_events.sort(key=lambda x: x['sold'], reverse=True)
RECURSIVE sort_by_sold(_)
sort_by_sold(list) ==
    IF list = <<>> THEN <<>>
    ELSE InsertBySold(list[Len(list)], sort_by_sold(SubSeq(list, 1, Len(list) - 1)))

\* insertion in ascending order of the date
RECURSIVE InsertByDateAscending(_, _)
InsertByDateAscending(x, sorted) ==
    IF sorted = <<>> THEN <<x>>
    ELSE IF x.date < Head(sorted).date THEN <<x>> \o sorted
    ELSE <<Head(sorted)>> \o InsertByDateAscending(x, Tail(sorted))

\* a sort by date with the oldest event first
RECURSIVE sort_by_date_ascending(_)
sort_by_date_ascending(list) ==
    IF list = <<>> THEN <<>>
    ELSE InsertByDateAscending(list[Len(list)],
                               sort_by_date_ascending(SubSeq(list, 1, Len(list) - 1)))

RECURSIVE InsertByDate(_, _)
InsertByDate(x, sorted) ==
    IF sorted = <<>> THEN <<x>>
    ELSE IF x.date > Head(sorted).date THEN <<x>> \o sorted
    ELSE <<Head(sorted)>> \o InsertByDate(x, Tail(sorted))

\* past_events.sort(key=lambda x: x['date'], reverse=True)
RECURSIVE sort_by_date(_)
sort_by_date(list) ==
    IF list = <<>> THEN <<>>
    ELSE InsertByDate(list[Len(list)], sort_by_date(SubSeq(list, 1, Len(list) - 1)))

\* rankings that mark the first four
add_rankings_top4(list) ==
    [i \in 1..Len(list) |->
        [list[i] EXCEPT !.rank = i, !.top_performer = (i - 1 <= 3)]]

\* event['rank'] = i + 1, and top_performer for i < 3
add_rankings(list) ==
    [i \in 1..Len(list) |->
        [list[i] EXCEPT !.rank = i, !.top_performer = (i - 1 < 3)]]

RECURSIVE SumSold(_)
SumSold(list) == IF list = <<>> THEN 0 ELSE Head(list).sold + SumSold(Tail(list))

NoSummary == [has |-> FALSE, count |-> 0, avg_sold |-> 0]

\* a summary whose average is rounded up
season_summary_ceil(past_events) ==
    IF past_events # <<>>
    THEN [has |-> TRUE, count |-> Len(past_events),
          avg_sold |-> (SumSold(past_events) + Len(past_events) - 1)
                          \div Len(past_events)]
    ELSE NoSummary

season_summary(past_events) ==
    IF past_events # <<>>
    THEN [has |-> TRUE, count |-> Len(past_events),
          avg_sold |-> SumSold(past_events) \div Len(past_events)]
    ELSE NoSummary

\* What one call computes, writes and returns.
\*   env.db, env.template : the database opens, the template renders
\*   env.reconnect        : the database opens again for the season block
\*   selected             : the rows get_events_for_graph returned
\*   stage : how far the call got; kind : the page written to out_path
page_stage(evs, future, img, env) ==
    IF ~env.db THEN "connect"
    ELSE IF get_events(evs) = <<>> THEN "no_events"
    ELSE IF future = <<>> THEN "no_future"
    ELSE IF ~env.reconnect THEN "reconnect"
    ELSE IF ~img.img THEN "graph"
    ELSE IF ~env.template THEN "template"
    ELSE "rendered"

page_kind(stage) ==
    CASE stage \in {"no_events", "no_future"} -> "empty"
      [] stage \in {"connect", "graph", "template"} -> "error"
      [] stage = "rendered" -> "report"
      [] stage = "reconnect" -> "none"

\* generate_page queries the database anew for each block: first is the
\* store as the future-events block reads it (lines 194-221), second as the
\* season block reads it (lines 285-318), third as generate_graph reads it
\* (line 351); selected are the rows get_events_for_graph returned from third.
generate_page_reads(first, second, third, now, env, selected) ==
    LET future == future_events(get_events(first.events), first.entries, now)
        start == season_start(now)
        ranked == add_rankings(sort_by_sold(
                      season_events(get_events(second.events), second.entries,
                                    now, start)))
        past_events == sort_by_date(ranked)
        img == generate_graph(selected, third.entries)
        stage == page_stage(first.events, future, img, env)
    IN  IF stage \in {"connect", "no_events", "no_future"}
        THEN [written |-> TRUE, writes |-> 1, raised |-> FALSE,
              ret |-> FALSE, kind |-> page_kind(stage),
              stage |-> stage, now |-> now, events |-> <<>>, season_start |-> now,
              ranked |-> <<>>, past_events |-> <<>>,
              season_summary |-> NoSummary, img |-> NoGraph]
        ELSE IF stage = "reconnect"
        THEN [written |-> FALSE, writes |-> 0, raised |-> TRUE,
              ret |-> FALSE, kind |-> page_kind(stage),
              stage |-> stage, now |-> now, events |-> <<>>, season_start |-> now,
              ranked |-> <<>>, past_events |-> <<>>,
              season_summary |-> NoSummary, img |-> NoGraph]
        ELSE [written |-> TRUE, writes |-> 1, raised |-> FALSE,
              ret |-> (stage = "rendered"), kind |-> page_kind(stage),
              stage |-> stage, now |-> now, events |-> future, season_start |-> start,
              ranked |-> ranked, past_events |-> past_events,
              season_summary |-> season_summary(past_events), img |-> img]

\* a call during which no other process writes: the three reads see one store
generate_page(evs, ents, now, env, selected) ==
    LET store == [events |-> evs, entries |-> ents]
    IN  generate_page_reads(store, store, store, now, env, selected)

\* the call got as far as the season list
SeasonComputed(p) == p.written /\ p.stage \in {"graph", "template", "rendered"}

(***************************************************************************)
(* One run of main(): the fetch loop stores a sample per fetched event,    *)
(* commits, and generate_page writes the page.  The database outlives the  *)
(* run, so the samples of earlier runs are the rows already stored.        *)
(***************************************************************************)
MaxEntries == 3

ApiEvent(id, title, from) ==
    [id |-> id, title |-> title, dateTimeFrom |-> from,
     publiclyAvailableFrom |-> Utc(DT(2023, 6, 1, 8, 0, 0)),
     publiclyAvailableTo |-> from]

ID_other2 == "00000000-0000-0000-0000-000000000002"
ID_other3 == "00000000-0000-0000-0000-000000000003"

\* the events the ticket shop publishes
Feed ==
    { ApiEvent(ID_456, "GAK 1902 : SK Sturm Graz", Utc(DT(2023, 7, 1, 0, 0, 0))),
      ApiEvent(ID_other, "GAK 1902 : LASK", Naive(DT(2023, 6, 30, 23, 59, 59))),
      ApiEvent(ID_other2, "GAK 1902 : WAC", Text(DT(2024, 1, 10, 20, 0, 0), TRUE, 3600)),
      ApiEvent(ID_2e9, "GAK 1902 : FC Blau-Weiss Linz", Utc(DT(2024, 3, 16, 18, 0, 0))),
      ApiEvent(ID_other3, "Testspiel", BadText) }

\* CURRENT_TIMESTAMP at the two fetches of an event the model follows, both
\* about 42 hours before the event starts
FetchClock(id) ==
    CASE id = ID_456 -> << Naive(DT(2023, 6, 29, 5, 55, 0)), Naive(DT(2023, 6, 29, 5, 30, 0)) >>
      [] id = ID_other -> << Naive(DT(2023, 6, 29, 5, 54, 59)), Naive(DT(2023, 6, 29, 5, 29, 59)) >>
      [] id = ID_other2 -> << Naive(DT(2024, 1, 9, 0, 55, 0)), Naive(DT(2024, 1, 9, 0, 30, 0)) >>
      [] OTHER -> << Naive(DT(2024, 3, 14, 23, 55, 0)), Naive(DT(2024, 3, 14, 23, 30, 0)) >>

\* a fetch: the seats counted sold and available, and which of the two clock
\* readings the insert gets
Fetches ==
    { [sold |-> 100, avail |-> 900, at |-> 1],
      [sold |-> 2302, avail |-> 50, at |-> 2] }

\* the clock when the page is generated
Nows ==
    { DT(2024, 3, 15, 0, 0, 0), DT(2024, 3, 16, 18, 0, 0), DT(2024, 7, 1, 0, 0, 0) }

Envs ==
    { [db |-> TRUE, reconnect |-> TRUE, template |-> TRUE],
      [db |-> TRUE, reconnect |-> TRUE, template |-> FALSE],
      [db |-> TRUE, reconnect |-> FALSE, template |-> TRUE],
      [db |-> FALSE, reconnect |-> FALSE, template |-> TRUE] }

Init ==
    /\ events = <<>>
    /\ entries = <<>>
    /\ pc = "ingest"
    /\ page = NoPage
    /\ arg = NoArg
    /\ ret = NoRet

\* db.update_event(conn, event, parsed) returning True, and the commit
update_event(event, entry, current_timestamp) ==
    /\ events' = insert_or_ignore_event(events, event)
    /\ entries' = insert_entry(entries, entry, current_timestamp)

UpdateEvent ==
    /\ pc = "ingest"
    /\ Len(entries) < MaxEntries
    /\ \E event \in Feed, f \in Fetches :
          update_event(event, [id |-> event.id, sold |-> f.sold, avail |-> f.avail],
                       FetchClock(event.id)[f.at])
    /\ UNCHANGED <<pc, page, arg, ret>>

\* a page generation that also drops the oldest stored sample
GeneratePage_pruning ==
    /\ pc = "ingest"
    /\ \E now \in Nows, env \in Envs :
          \E selected \in get_events_for_graph(events, entries, now) :
              page' = generate_page(events, entries, now, env, selected)
    /\ pc' = "done"
    /\ entries' = IF entries = <<>> THEN entries ELSE Tail(entries)
    /\ UNCHANGED <<events, arg, ret>>

GeneratePage ==
    /\ pc = "ingest"
    /\ \E now \in Nows, env \in Envs :
          \E selected \in get_events_for_graph(events, entries, now) :
              page' = generate_page(events, entries, now, env, selected)
    /\ pc' = "done"
    /\ UNCHANGED <<events, entries, arg, ret>>

\* the next cron run starts
NextRun ==
    /\ pc = "done"
    /\ pc' = "ingest"
    /\ page' = NoPage
    /\ UNCHANGED <<events, entries, arg, ret>>

Next == UpdateEvent \/ GeneratePage \/ NextRun

Spec == Init /\ [][Next]_vars

(***************************************************************************)
(* SpecVel: the velocity block applied to every short series of samples    *)
(* taken around the window starts                                          *)
(***************************************************************************)
MaxSamples == 3

VelNow == DT(2024, 3, 15, 0, 0, 0)

VelTimes ==
    { Naive(DT(2024, 3, 15, 0, 0, 0)),      \* now
      Naive(DT(2024, 3, 14, 23, 50, 0)),    \* now - 10 min
      Naive(DT(2024, 3, 14, 23, 49, 59)),   \* one second before
      Naive(DT(2024, 3, 14, 23, 15, 0)),    \* now - 45 min
      Naive(DT(2024, 3, 14, 23, 10, 0)),    \* now - 50 min
      Naive(DT(2024, 3, 13, 23, 59, 59)),   \* now - 1 day - 1 s
      BadText }

VelSold == {100, 105, 110}

VelRows ==
    {Entry(ID_other, s, 0, t) : s \in VelSold, t \in VelTimes \ {BadText}}
        \cup {Entry(ID_other, 105, 0, BadText)}

SeqsUpTo(S, n) == UNION {[1..k -> S] : k \in 0..n}

InitVel ==
    /\ StoreIdle
    /\ arg \in [fn : {"velocity"}, rows : SeqsUpTo(VelRows, MaxSamples), now : {VelNow}]
    /\ ret = NoRet

ComputeVelocity ==
    /\ arg.fn = "velocity"
    /\ ~ret.done
    /\ ret' = [done |-> TRUE, v |-> Velocity(arg.rows, arg.now)]
    /\ UNCHANGED <<events, entries, pc, page, arg>>

SpecVel == InitVel /\ [][ComputeVelocity]_vars

\* the sold counts of the rows of arg.rows that parse and lie in the window
InWindow(w) ==
    {i \in 1..Len(arg.rows) :
        /\ arg.rows[i].timestamp.valid
        /\ Instant(arg.rows[i].timestamp.dt) >= Instant(arg.now) - w * 60}

SpecDelta(w) ==
    LET sold == {arg.rows[i].sold : i \in InWindow(w)}
    IN  IF Cardinality(InWindow(w)) >= 2
        THEN (CHOOSE hi \in sold : \A x \in sold : x <= hi)
             - (CHOOSE lo \in sold : \A x \in sold : lo <= x)
        ELSE 0

C3_Series ==
    /\ arg.now = VelNow
    /\ arg.rows = << Entry(ID_other, 100, 0, Naive(DT(2024, 3, 14, 23, 10, 0))),
                     Entry(ID_other, 105, 0, Naive(DT(2024, 3, 14, 23, 15, 0))),
                     Entry(ID_other, 110, 0, Naive(DT(2024, 3, 15, 0, 0, 0))) >>

\* C3 as stated: on that series the 10-minute figure is 5 and the 60-minute
\* figure is 10.
C3_Original ==
    (ret.done /\ C3_Series) =>
        (ret.v.ten_min_sold = 5 /\ ret.v.one_hour_sold = 10)

\* C3 amended: on that series only the sample at now lies in the 10-minute
\* window (the sample of 105 is 45 minutes old), so the 10-minute figure is 0;
\* the 60-minute figure is 10.
C3_Amended ==
    (ret.done /\ C3_Series) =>
        (ret.v.computed /\ ret.v.ten_min_sold = 0 /\ ret.v.one_hour_sold = 10)

C3_Witness ==
    ret.done /\ C3_Series /\ ret.v.ten_min_sold = 0 /\ ret.v.one_hour_sold = 10

MaxYears == 2

SeasonNows ==
    {[year |-> y, month |-> m, day |-> d, sec |-> sec] :
        y \in 2023..(2023 + MaxYears - 1), m \in 1..12, d \in {1, 15, 28}, sec \in {0, 86399}}
    \cup {[year |-> y, month |-> m, day |-> DaysInMonth(y, m), sec |-> 86399] :
            y \in 2023..(2023 + MaxYears - 1), m \in 1..12}

InitSeasonStart ==
    /\ StoreIdle
    /\ arg \in [fn : {"season_start"}, now : SeasonNows]
    /\ ret = NoRet

ComputeSeasonStart ==
    /\ arg.fn = "season_start"
    /\ ~ret.done
    /\ ret' = [done |-> TRUE, val |-> season_start(arg.now)]
    /\ UNCHANGED <<events, entries, pc, page, arg>>

SpecSeasonStart == InitSeasonStart /\ [][ComputeSeasonStart]_vars

\* C7: the season start is July 1 00:00 of now's year from July on, and of the
\* year before until June; it is the last July 1 that is not after now, and
\* now = 2024-03-15 gives 2023-07-01.
C7_SeasonStart ==
    ret.done =>
        /\ ret.val.month = 7 /\ ret.val.day = 1 /\ ret.val.sec = 0
        /\ ret.val.year = (IF arg.now.month >= 7 THEN arg.now.year ELSE arg.now.year - 1)
        /\ Instant(ret.val) <= Instant(arg.now)
        /\ Instant(arg.now) < Instant([ret.val EXCEPT !.year = ret.val.year + 1])
        /\ (arg.now.year = 2024 /\ arg.now.month = 3 /\ arg.now.day = 15)
              => ret.val = DT(2023, 7, 1, 0, 0, 0)

C7_Witness ==
    /\ ret.done
    /\ arg.now = DT(2024, 7, 1, 0, 0, 0)
    /\ ret.val = DT(2024, 7, 1, 0, 0, 0)

C7_WitnessMarch ==
    /\ ret.done
    /\ arg.now = DT(2024, 3, 15, 0, 0, 0)
    /\ ret.val = DT(2023, 7, 1, 0, 0, 0)

(***************************************************************************)
(* Claims about generate_page, stated on the stored rows                   *)
(***************************************************************************)
RowsOf(id) == {k \in 1..Len(entries) : entries[k].match = id}

ParsedRowsOf(id) == {k \in RowsOf(id) : entries[k].timestamp.valid}

RowsInWindow(id, now, w) ==
    {k \in ParsedRowsOf(id) :
        Instant(entries[k].timestamp.dt) >= Instant(now) - w * 60}

SetMax(S) == CHOOSE hi \in S : \A x \in S : x <= hi
SetMin(S) == CHOOSE lo \in S : \A x \in S : lo <= x

\* the figure of window w for event id, over a sold count per row
Figure(id, now, w, sold(_)) ==
    LET S == {sold(k) : k \in RowsInWindow(id, now, w)}
    IN  IF Cardinality(ParsedRowsOf(id)) >= 2 /\ Cardinality(RowsInWindow(id, now, w)) >= 2
        THEN SetMax(S) - SetMin(S)
        ELSE 0

RawSold(k) == entries[k].sold

Windows == {10, 60, 1440}

PartsOf(e) == {e.velocity[j] : j \in 1..Len(e.velocity)}

Corrected(id, start, k) ==
    apply_ticket_corrections(id, entries[k].sold,
                             Instant(start) - Instant(entries[k].timestamp.dt))

StartOf(id) == (CHOOSE i \in 1..Len(events) : events[i].id = id)

\* C6: the season's sold counts and the velocity figures are those of the
\* corrected counts of the stored rows.
C6_Original ==
    SeasonComputed(page) =>
        /\ \A i \in 1..Len(page.past_events) :
              LET e == page.past_events[i]
                  start == events[StartOf(e.event_id)].datetime.dt
              IN  \E k \in RowsOf(e.event_id) : e.sold = Corrected(e.event_id, start, k)
        /\ \A i \in 1..Len(page.events) :
              LET e == page.events[i]
                  start == events[StartOf(e.id)].datetime.dt
                  CorrectedSold(k) == Corrected(e.id, start, k)
              IN  \A part \in PartsOf(e) :
                      part.sold = Figure(e.id, page.now, part.window, CorrectedSold)

\* C8: a stored event whose start time parses, and which has a sample, is in
\* the season list exactly when season_start <= start < now (zone stripped);
\* at now = 2024-03-15 the event of 2023-06-30 is out, the one of
\* 2023-07-01T00:00:00 is in, the one of 2024-03-16 is out.
InSeasonList(id) ==
    \E k \in 1..Len(page.past_events) : page.past_events[k].event_id = id

C9_Original ==
    SeasonComputed(page) =>
        \A i \in 1..Len(page.past_events) :
            LET e == page.past_events[i]
            IN  \E k \in ParsedRowsOf(e.event_id) :
                    /\ e.sold = entries[k].sold
                    /\ \A j \in ParsedRowsOf(e.event_id) :
                          Instant(entries[j].timestamp.dt)
                              <= Instant(entries[k].timestamp.dt)

\* C10: the ranks are 1..n, a lower rank never has fewer tickets sold, and
\* events with equal sold counts are ranked in the order of their EVENTS rows;
\* this fixes the ranking, so it is the same on every run over the same rows.
C10_Ranking ==
    SeasonComputed(page) =>
        LET pe == page.past_events
            n == Len(pe)
        IN  /\ {pe[i].rank : i \in 1..n} = 1..n
            /\ \A i, j \in 1..n :
                  /\ pe[i].rank < pe[j].rank => pe[i].sold >= pe[j].sold
                  /\ (pe[i].sold = pe[j].sold
                      /\ StartOf(pe[i].event_id) < StartOf(pe[j].event_id))
                        => pe[i].rank < pe[j].rank

\* two season events with equal sold counts, shown in the order opposite to
\* their ranks
C10_Witness ==
    /\ page.written /\ page.ret
    /\ Len(page.past_events) = 2
    /\ page.past_events[1].sold = page.past_events[2].sold
    /\ page.past_events[1].rank = 2
    /\ StartOf(page.past_events[2].event_id) < StartOf(page.past_events[1].event_id)

(***************************************************************************)
(* SpecSeason: runs in March 2024 over the home matches of the season.     *)
(* An earlier run has stored the next match and a sample of it, so every   *)
(* page gets as far as the season list.                                    *)
(***************************************************************************)
MaxSeasonEntries == 5

\* what the ticket shop publishes: the event, the clock at its fetch and the
\* sold counts a fetch may find
SeasonFeed ==
    { [event |-> ApiEvent(ID_456, "GAK 1902 : SK Sturm Graz",
                          Utc(DT(2023, 7, 1, 0, 0, 0))),
       clock |-> Naive(DT(2023, 6, 29, 5, 55, 0)), sold |-> {200, 300}],
      [event |-> ApiEvent(ID_aee, "GAK 1902 : SV Ried",
                          Utc(DT(2023, 9, 23, 16, 0, 0))),
       clock |-> Naive(DT(2023, 9, 21, 22, 0, 0)), sold |-> {200}],
      [event |-> ApiEvent(ID_other3, "GAK 1902 : SCR Altach",
                          Utc(DT(2023, 11, 4, 16, 0, 0))),
       clock |-> Naive(DT(2023, 11, 2, 22, 0, 0)), sold |-> {200}],
      [event |-> ApiEvent(ID_other2, "GAK 1902 : WAC",
                          Text(DT(2024, 1, 10, 20, 0, 0), TRUE, 3600)),
       clock |-> Naive(DT(2024, 1, 9, 0, 55, 0)), sold |-> {100, 200}],
      [event |-> ApiEvent(ID_2e9, "GAK 1902 : FC Blau-Weiss Linz",
                          Utc(DT(2024, 3, 16, 18, 0, 0))),
       clock |-> Naive(DT(2024, 3, 14, 23, 30, 0)), sold |-> {100}] }

NextMatch == CHOOSE f \in SeasonFeed : f.event.id = ID_2e9

SeasonPageNows == { DT(2024, 3, 15, 0, 0, 0) }

SeasonPageEnvs == { [db |-> TRUE, reconnect |-> TRUE, template |-> TRUE] }

InitSeason ==
    /\ events = insert_or_ignore_event(<<>>, NextMatch.event)
    /\ entries = insert_entry(<<>>, [id |-> ID_2e9, sold |-> 100, avail |-> 900],
                              NextMatch.clock)
    /\ pc = "ingest"
    /\ page = NoPage
    /\ arg = NoArg
    /\ ret = NoRet

UpdateSeasonEvent ==
    /\ pc = "ingest"
    /\ Len(entries) < MaxSeasonEntries
    /\ \E f \in SeasonFeed :
          \E sold \in f.sold :
              update_event(f.event,
                           [id |-> f.event.id, sold |-> sold, avail |-> 1000 - sold],
                           f.clock)
    /\ UNCHANGED <<pc, page, arg, ret>>

GenerateSeasonPage ==
    /\ pc = "ingest"
    /\ \E now \in SeasonPageNows, env \in SeasonPageEnvs :
          \E selected \in get_events_for_graph(events, entries, now) :
              page' = generate_page(events, entries, now, env, selected)
    /\ pc' = "done"
    /\ UNCHANGED <<events, entries, arg, ret>>

NextSeason == UpdateSeasonEvent \/ GenerateSeasonPage \/ NextRun

SpecSeason == InitSeason /\ [][NextSeason]_vars


\* the events of the first k places of the sold ordering
TopOfRanking(k) ==
    {page.ranked[i].event_id : i \in 1..(IF Len(page.ranked) < k THEN Len(page.ranked) ELSE k)}

\* C11: the displayed season list is in descending order of the event date;
\* every event in it is the record ranked in the sold ordering, at the place
\* its rank names, so the displayed ranks are a permutation of 1..n and the
\* flagged events are exactly those of places 1 to 3 of that ordering.
C11_DisplayOrderKeepsRanks ==
    SeasonComputed(page) =>
        LET pe == page.past_events
            n == Len(pe)
        IN  /\ \A i \in 1..(n - 1) : pe[i].date >= pe[i + 1].date
            /\ Len(page.ranked) = n
            /\ \A i \in 1..n : pe[i].rank \in 1..n /\ page.ranked[pe[i].rank] = pe[i]
            /\ \A i, j \in 1..n : i # j => pe[i].rank # pe[j].rank
            /\ {pe[i].event_id : i \in {j \in 1..n : pe[j].top_performer}}
                  = TopOfRanking(3)

\* four season events: the newest is ranked last and not flagged, the oldest
\* is flagged and shown last
C11_Witness ==
    /\ page.written /\ page.ret
    /\ Len(page.past_events) = 4
    /\ page.past_events[1].date = 20240110
    /\ page.past_events[1].rank = 4
    /\ ~page.past_events[1].top_performer
    /\ page.past_events[4].date = 20230701
    /\ page.past_events[4].rank = 1
    /\ page.past_events[4].top_performer

\* C12: a season event is flagged top_performer exactly when its rank is 1, 2
\* or 3, whatever the lower-ranked events sold; with fewer than three season
\* events all of them are flagged.
C12_TopThreeFlagged ==
    SeasonComputed(page) =>
        LET pe == page.past_events
            n == Len(pe)
        IN  /\ \A i \in 1..n : pe[i].top_performer <=> pe[i].rank \in {1, 2, 3}
            /\ n < 3 => \A i \in 1..n : pe[i].top_performer

\* four season events that sold the same: the one ranked fourth is not flagged
C12_Witness ==
    /\ page.written /\ page.ret
    /\ Len(page.past_events) = 4
    /\ \A i \in 1..4 : page.past_events[i].sold = 200
    /\ \E i \in 1..4 :
          page.past_events[i].rank = 4 /\ ~page.past_events[i].top_performer
    /\ \E i \in 1..4 :
          page.past_events[i].rank = 3 /\ page.past_events[i].top_performer

\* the sold counts of the first k displayed season events, added up
RECURSIVE SoldOfFirst(_)
SoldOfFirst(k) ==
    IF k = 0 THEN 0 ELSE SoldOfFirst(k - 1) + page.past_events[k].sold

\* C13: with n > 0 season events the summary counts n and its average is the
\* floor of their total sold over n; with none the summary is the no-data
\* value.
C13_SeasonAverage ==
    SeasonComputed(page) =>
        LET n == Len(page.past_events)
            total == SoldOfFirst(n)
            summary == page.season_summary
        IN  IF n = 0 THEN summary = NoSummary
            ELSE /\ summary.has
                 /\ summary.count = n
                 /\ summary.avg_sold * n <= total
                 /\ total < (summary.avg_sold + 1) * n

\* three season events that sold 500 together: the average is 166
C13_Witness ==
    /\ page.written /\ page.ret
    /\ Len(page.past_events) = 3
    /\ SoldOfFirst(3) = 500
    /\ page.season_summary.avg_sold = 166

\* a page that got to the season list with no season event: no summary
C13_WitnessNoData ==
    /\ page.written /\ page.ret
    /\ page.past_events = <<>>
    /\ page.season_summary = NoSummary


(***************************************************************************)
(* SpecHours: the hours between an event start and two of its samples, as  *)
(* the sparkline and the overlay compute them                              *)
(***************************************************************************)
\* stored start times of one match: in UTC, with the local offset, with an
\* offset west of UTC, and without a zone
HourStarts ==
    { Utc(DT(2024, 1, 10, 19, 0, 0)),
      Text(DT(2024, 1, 10, 20, 0, 0), TRUE, 3600),
      Text(DT(2024, 1, 10, 14, 0, 0), TRUE, 0 - 5 * 3600),
      Naive(DT(2024, 1, 10, 19, 0, 0)) }

\* CURRENT_TIMESTAMP of a sample: UTC, stored without a zone
HourSamples ==
    { Naive(DT(2024, 1, 8, 19, 0, 0)),
      Naive(DT(2024, 1, 10, 18, 0, 0)),
      Naive(DT(2024, 1, 10, 18, 59, 59)),
      Naive(DT(2024, 1, 10, 19, 0, 0)),
      Naive(DT(2024, 1, 10, 19, 0, 1)),
      Naive(DT(2024, 1, 10, 19, 30, 0)),
      Naive(DT(2024, 1, 10, 20, 30, 0)) }

InitHours ==
    /\ StoreIdle
    /\ \E start \in HourStarts, first \in HourSamples, second \in HourSamples :
          arg = [fn |-> "hours",
                 event |-> EventRow(ApiEvent(ID_other, "GAK 1902 : LASK", start)),
                 rows |-> << Entry(ID_other, 100, 900, first),
                             Entry(ID_other, 150, 850, second) >>]
    /\ ret = NoRet

\* the loops over the rows of generate_mini_graph, called as generate_page
\* calls it, and of generate_graph
ComputeHours ==
    /\ arg.fn = "hours"
    /\ ~ret.done
    /\ ret' = [done |-> TRUE,
               mini |-> mini_series(arg.event.id, arg.event.datetime.dt, arg.rows),
               raised |-> graph_raises(<<arg.event>>, arg.rows),
               graph |-> IF graph_raises(<<arg.event>>, arg.rows) THEN <<>>
                         ELSE graph_series(arg.event, arg.rows)]
    /\ UNCHANGED <<events, entries, pc, page, arg>>

SpecHours == InitHours /\ [][ComputeHours]_vars

\* the instant of a stored text: its wall clock less its offset, a text
\* without zone being UTC
InstantOf(text) == Instant(text.dt) - text.utcoff

\* seconds from sample k of the call to the event start
UntilStart(k) == InstantOf(arg.event.datetime) - InstantOf(arg.rows[k].timestamp)

\* the hours in series agree with the instants: their value, their sign and
\* their order
HoursAgree(series) ==
    /\ \A k \in 1..Len(series) :
          /\ series[k].h = UntilStart(k)
          /\ InstantOf(arg.rows[k].timestamp) < InstantOf(arg.event.datetime)
                => series[k].h > 0
          /\ InstantOf(arg.rows[k].timestamp) > InstantOf(arg.event.datetime)
                => series[k].h < 0
    /\ \A j, k \in 1..Len(series) :
          InstantOf(arg.rows[j].timestamp) <= InstantOf(arg.rows[k].timestamp)
              => series[j].h >= series[k].h

\* C14: the hours computed for a sample, by the sparkline and by the overlay,
\* are event start minus sample time: positive for a sample before the start,
\* negative for one after it, and never greater for a later sample.
C14_Original ==
    ret.done => HoursAgree(ret.mini) /\ HoursAgree(ret.graph)

\* C15: for every stored start, with or without an offset, the sparkline and
\* the overlay compute the same hours for a sample, the difference of the
\* instants with the start converted to UTC.
C15_Original ==
    (ret.done /\ ~ret.raised) =>
        \A k \in 1..Len(arg.rows) :
            /\ ret.mini[k].h = ret.graph[k].h
            /\ ret.graph[k].h = UntilStart(k)


(***************************************************************************)
(* SpecChart: the sparkline of each event and the overlay, drawn from the  *)
(* rows of a match and of the match a week later                           *)
(***************************************************************************)
MaxChartSamples == 3

ChartEvent ==
    EventRow(ApiEvent(ID_other, "GAK 1902 : LASK", Utc(DT(2024, 1, 10, 19, 0, 0))))

\* the stored start of the later match: in UTC, without a zone, not a date
SiblingStarts ==
    { Utc(DT(2024, 1, 17, 19, 0, 0)), Naive(DT(2024, 1, 17, 19, 0, 0)), BadText }

SiblingEvents ==
    { EventRow(ApiEvent(ID_other2, "GAK 1902 : WAC", start)) : start \in SiblingStarts }

\* the rows get_events_for_graph returns, ordered by the DATETIME text
ChartSelections == { <<ChartEvent>> } \cup { <<ChartEvent, e>> : e \in SiblingEvents }

\* a stored sample: 744 hours, 48 hours and 1 hour before the first match
\* starts, half an hour after it started, and one whose timestamp is no date
ChartSamples ==
    { [sold |-> 40, timestamp |-> Naive(DT(2023, 12, 10, 19, 0, 0))],
      [sold |-> 100, timestamp |-> Naive(DT(2024, 1, 8, 19, 0, 0))],
      [sold |-> 150, timestamp |-> Naive(DT(2024, 1, 10, 18, 0, 0))],
      [sold |-> 160, timestamp |-> Naive(DT(2024, 1, 10, 19, 30, 0))],
      [sold |-> 120, timestamp |-> BadText] }

ChartRows ==
    { Entry(id, x.sold, 1000 - x.sold, x.timestamp) :
          id \in {ID_other, ID_other2}, x \in ChartSamples }

InitChart ==
    /\ StoreIdle
    /\ \E selected \in ChartSelections, ents \in SeqsUpTo(ChartRows, MaxChartSamples) :
          arg = [fn |-> "charts", selected |-> selected, ents |-> ents]
    /\ ret = NoRet

\* generate_graph, and generate_mini_graph for every event whose start parses
\* (generate_page skips the others before the call)
DrawCharts ==
    /\ arg.fn = "charts"
    /\ ~ret.done
    /\ ret' = [done |-> TRUE,
               graph |-> generate_graph(arg.selected, arg.ents),
               mini |-> [i \in 1..Len(arg.selected) |->
                           IF arg.selected[i].datetime.valid
                           THEN generate_mini_graph(arg.selected[i].id,
                                                    arg.selected[i].datetime.dt,
                                                    arg.ents)
                           ELSE NoImg]]
    /\ UNCHANGED <<events, entries, pc, page, arg>>

SpecChart == InitChart /\ [][DrawCharts]_vars


\* the stored rows of selected event i, the ones whose timestamp parses, and
\* the seconds from row k to the start of the event
RowsOfSelected(i) == get_entries_for_event(arg.ents, arg.selected[i].id)

ParseableOf(i) ==
    {k \in 1..Len(RowsOfSelected(i)) : RowsOfSelected(i)[k].timestamp.valid}

HoursOf(i, k) ==
    InstantOf(arg.selected[i].datetime) - InstantOf(RowsOfSelected(i)[k].timestamp)

StartParses(i) ==
    /\ arg.selected[i].datetime.valid
    /\ arg.selected[i].sellfrom.valid
    /\ arg.selected[i].sellto.valid

\* the overlay subtracts a UTC sample from a start that has no zone
ZoneAmbiguous(i) ==
    StartParses(i) /\ ~arg.selected[i].datetime.aware /\ ParseableOf(i) # {}

LinesOf(i) ==
    {j \in 1..Len(ret.graph.lines) : ret.graph.lines[j].id = arg.selected[i].id}

Ascending(hours) ==
    \A j, k \in 1..Len(hours) : j < k => hours[j] <= hours[k]

\* C16: the series each chart plots is in ascending order of the hours,
\* whatever the order of the stored rows; the samples of 2024-01-08T19:00
\* (100) and 2024-01-10T18:00 (150) of the match starting 2024-01-10T19:00Z
\* give [(1.0, 150), (48.0, 100)].
C16_Original ==
    ret.done =>
        /\ \A i \in 1..Len(arg.selected) : Ascending(ret.mini[i].hours)
        /\ \A j \in 1..Len(ret.graph.lines) : Ascending(ret.graph.lines[j].hours)
        /\ ( /\ Len(RowsOfSelected(1)) = 2
             /\ {[sold |-> r.sold, timestamp |-> r.timestamp] :
                     r \in {RowsOfSelected(1)[k] : k \in 1..2}}
                  = { [sold |-> 100, timestamp |-> Naive(DT(2024, 1, 8, 19, 0, 0))],
                      [sold |-> 150, timestamp |-> Naive(DT(2024, 1, 10, 18, 0, 0))] } )
             => /\ ret.mini[1].hours = <<3600, 48 * 3600>>
                /\ ret.mini[1].sold = <<150, 100>>

\* a stored sample, or the start of a selected event, does not parse
UnparseableRecord ==
    \/ \E k \in 1..Len(arg.ents) : ~arg.ents[k].timestamp.valid
    \/ \E i \in 1..Len(arg.selected) : ~arg.selected[i].datetime.valid

\* C18: a sample whose timestamp does not parse is left out of both charts,
\* and nothing else is: the sparkline of an event plots its other samples of
\* the last 300 hours, the overlay has a line with all the other samples for
\* every event whose start parses, and an event whose start does not parse is
\* the only one without a line.
C18_Original ==
    (ret.done /\ UnparseableRecord) =>
        \A i \in 1..Len(arg.selected) :
            LET kept == {k \in ParseableOf(i) : HoursOf(i, k) <= 300 * 3600}
            IN  /\ arg.selected[i].datetime.valid =>
                      /\ Len(ret.mini[i].hours) = Cardinality(kept)
                      /\ \A k \in kept :
                            \E j \in 1..Len(ret.mini[i].hours) :
                                ret.mini[i].hours[j] = HoursOf(i, k)
                /\ (StartParses(i) /\ ParseableOf(i) # {}) =>
                      /\ ret.graph.img
                      /\ \E j \in LinesOf(i) :
                            Len(ret.graph.lines[j].hours) = Cardinality(ParseableOf(i))
                /\ ~StartParses(i) => LinesOf(i) = {}

\* C19: when the overlay meets an event whose start has no zone, it still
\* returns a chart with a line for every other event that has samples.
C19_Original ==
    (ret.done /\ \E i \in 1..Len(arg.selected) : ZoneAmbiguous(i)) =>
        \A i \in 1..Len(arg.selected) :
            (StartParses(i) /\ arg.selected[i].datetime.aware /\ ParseableOf(i) # {})
                => ret.graph.img /\ LinesOf(i) # {}

\* C20: unless a start without zone stops the overlay, a chart is returned
\* exactly when a sample lies in its window: 0 to 300 hours before the start
\* for the sparkline of an event, 0 to 600 hours for the overlay.
C20_Original ==
    (ret.done /\ \A i \in 1..Len(arg.selected) : ~ZoneAmbiguous(i)) =>
        /\ \A i \in 1..Len(arg.selected) :
              arg.selected[i].datetime.valid =>
                  (ret.mini[i].img <=>
                      \E k \in ParseableOf(i) :
                          0 <= HoursOf(i, k) /\ HoursOf(i, k) <= 300 * 3600)
        /\ ret.graph.img <=>
              \E i \in 1..Len(arg.selected) :
                  /\ StartParses(i)
                  /\ \E k \in ParseableOf(i) :
                        0 <= HoursOf(i, k) /\ HoursOf(i, k) <= 600 * 3600


(***************************************************************************)
(* SpecCorrAll: the three copies of the correction ladder applied to the   *)
(* same event id, sold count and hours                                     *)
(***************************************************************************)
InitCorrAll ==
    /\ StoreIdle
    /\ arg \in [fn : {"corrections"}, event_id : CorrIds,
                tickets_sold : CorrSold, h_diff : CorrHours]
    /\ ret = NoRet

CorrectAll ==
    /\ arg.fn = "corrections"
    /\ ~ret.done
    /\ ret' = [done |-> TRUE,
               val |-> apply_ticket_corrections(arg.event_id, arg.tickets_sold,
                                                arg.h_diff),
               graph |-> graph_corrections(arg.event_id, arg.tickets_sold, arg.h_diff),
               legacy |-> draw_graph_corrections(arg.event_id, arg.tickets_sold,
                                                 arg.h_diff)]
    /\ UNCHANGED <<events, entries, pc, page, arg>>

SpecCorrAll == InitCorrAll /\ [][CorrectAll]_vars

\* C26: for every event id, raw sold count and hours, the block inlined in
\* generate_graph, apply_ticket_corrections and the block of the legacy
\* draw_graph give the same corrected count.
C26_SameCorrections ==
    ret.done => ret.graph = ret.val /\ ret.legacy = ret.val

\* a count at the first threshold is corrected by all three
C26_Witness ==
    /\ ret.done
    /\ arg.event_id = ID_456
    /\ arg.tickets_sold = 2302
    /\ ret.val = 363 /\ ret.graph = 363 /\ ret.legacy = 363


(***************************************************************************)
(* SpecStore: update_event called for events whose title and start change  *)
(* between fetches, with the outcomes of its two statements.  arg keeps    *)
(* the call and the tables before it, ret what the call returned; the      *)
(* commit of main follows the call.                                        *)
(***************************************************************************)
MaxStoreEntries == 3

\* two matches, each published once as planned and once postponed by a day
StoreFeed ==
    { ApiEvent(ID_other, "GAK 1902 : LASK", Utc(DT(2024, 3, 16, 18, 0, 0))),
      ApiEvent(ID_other, "GAK 1902 : LASK (neuer Termin)", Utc(DT(2024, 3, 17, 18, 0, 0))),
      ApiEvent(ID_other2, "GAK 1902 : WAC", Text(DT(2024, 3, 23, 17, 0, 0), TRUE, 3600)),
      ApiEvent(ID_other2, "GAK 1902 : WAC (neuer Termin)",
               Text(DT(2024, 3, 24, 17, 0, 0), TRUE, 3600)) }

StoreSold == {100, 150}

\* what the two statements of update_event do: both succeed, the INSERT OR
\* IGNORE raises sqlite3.Error, the INSERT INTO ENTRIES raises it
StoreOutcomes == {"ok", "event_error", "entry_error"}

\* CURRENT_TIMESTAMP of a run: the cron runs are five minutes apart
StoreClock(calls) == Naive(DT(2024, 3, 14, 23, 5 * calls, 0))

InitStore ==
    /\ events = <<>>
    /\ entries = <<>>
    /\ pc = "ingest"
    /\ page = NoPage
    /\ arg = NoArg
    /\ ret = NoRet

\* db.update_event(conn, event, parsed) and conn.commit(): there is no
\* rollback, so what the statements before the error inserted is committed
update_event_outcome(event, entry, current_timestamp, outcome) ==
    CASE outcome = "ok" ->
            /\ update_event(event, entry, current_timestamp)
            /\ ret' = [done |-> TRUE, val |-> TRUE]
      [] outcome = "event_error" ->
            /\ UNCHANGED <<events, entries>>
            /\ ret' = [done |-> TRUE, val |-> FALSE]
      [] outcome = "entry_error" ->
            /\ events' = insert_or_ignore_event(events, event)
            /\ UNCHANGED entries
            /\ ret' = [done |-> TRUE, val |-> FALSE]

StoreUpdate ==
    /\ Len(entries) < MaxStoreEntries
    /\ \E event \in StoreFeed, sold \in StoreSold, outcome \in StoreOutcomes :
          LET entry == [id |-> event.id, sold |-> sold, avail |-> 1000 - sold]
          IN  /\ update_event_outcome(event, entry, StoreClock(Len(entries)), outcome)
              /\ arg' = [fn |-> "update_event", event |-> event, entry |-> entry,
                         outcome |-> outcome,
                         events |-> events, entries |-> entries]
    /\ page' = NoPage
    /\ UNCHANGED pc

StorePageNows == { DT(2024, 3, 15, 0, 0, 0) }

\* generate_page at the end of a run, over what the run committed
StorePage ==
    /\ page = NoPage
    /\ \E now \in StorePageNows, env \in Envs :
          \E selected \in get_events_for_graph(events, entries, now) :
              /\ page' = generate_page(events, entries, now, env, selected)
              /\ ret' = [done |-> TRUE, val |-> page'.ret]
    /\ arg' = [fn |-> "generate_page", events |-> events, entries |-> entries]
    /\ UNCHANGED <<events, entries, pc>>

NextStore == StoreUpdate \/ StorePage

SpecStore == InitStore /\ [][NextStore]_vars

\* the stored rows of event id
EventRowsOf(evs, id) == {i \in 1..Len(evs) : evs[i].id = id}

\* C21: there is one EVENTS row per id at most; a call for an id that has a
\* row leaves the rows as they are; and the row of an id is the one given
\* by the first call for it that returned True.
C21_Original ==
    (ret.done /\ arg.fn = "update_event") =>
        LET id == arg.event.id
        IN  /\ \A i, j \in 1..Len(events) : events[i].id = events[j].id => i = j
            /\ EventRowsOf(arg.events, id) # {} => events = arg.events
            /\ (ret.val /\ \A k \in 1..Len(arg.entries) : arg.entries[k].match # id)
                  => \E i \in EventRowsOf(events, id) : events[i] = EventRow(arg.event)

\* C22: the ENTRIES rows before a call are still there after it, unchanged
\* and in place; a call of update_event that returned True added exactly one
\* row, the sample of its event; generate_page added none.
C22_AppendOnly ==
    ret.done =>
        /\ Len(entries) >= Len(arg.entries)
        /\ SubSeq(entries, 1, Len(arg.entries)) = arg.entries
        /\ (arg.fn = "update_event" /\ ret.val) =>
              /\ Len(entries) = Len(arg.entries) + 1
              /\ entries[Len(entries)].match = arg.event.id
              /\ entries[Len(entries)].sold = arg.entry.sold
        /\ arg.fn = "generate_page" => entries = arg.entries

\* a second sample of an event stored behind the first
C22_Witness ==
    /\ ret.done /\ arg.fn = "update_event" /\ ret.val
    /\ Len(arg.entries) = 1
    /\ Len(entries) = 2
    /\ entries[1].match = entries[2].match
    /\ entries[1].sold = 150 /\ entries[2].sold = 100

\* C25: a call of update_event that returned False left no row behind:
\* after the commit EVENTS and ENTRIES are what they were before the call.
C25_Original ==
    (ret.done /\ arg.fn = "update_event" /\ ~ret.val) =>
        events = arg.events /\ entries = arg.entries


(***************************************************************************)
(* Claims about the effects of generate_page, on Spec                      *)
(***************************************************************************)
\* C24: a step of generate_page, with the generate_mini_graph and
\* generate_graph calls it makes, leaves the EVENTS and the ENTRIES rows as
\* they were, whether it writes the report, the empty page or an error page.
C24_ReadersLeaveStore ==
    [][(pc = "ingest" /\ pc' = "done") => (events' = events /\ entries' = entries)]_vars

\* an error page written over a store that holds events and samples
C24_Witness ==
    /\ pc = "done"
    /\ page.written /\ page.kind = "error" /\ page.stage = "graph"
    /\ events # <<>> /\ entries # <<>>

\* C27: a call that got past the first database connection has written the
\* output file exactly once when it returns, and it returns True exactly when
\* what it wrote is the rendered report; otherwise it wrote the empty page or
\* an error page and returned False.
C27_Original ==
    (pc = "done" /\ page.stage # "connect") =>
        /\ ~page.raised
        /\ page.writes = 1
        /\ page.ret <=> page.kind = "report"
        /\ page.kind = "report" =>
              page.stage = "rendered" /\ page.events # <<>> /\ page.img.img
        /\ ~page.ret => page.kind \in {"empty", "error"}


(***************************************************************************)
(* SpecConc: a run of main --generate writes the page while another run    *)
(* stores samples.  The reading run takes one step per block of            *)
(* generate_page; arg keeps what the blocks before read.  (Within a block  *)
(* the code queries once per event, and generate_mini_graph once more;     *)
(* the steps here are the coarsest that follow the code.)                 *)
(***************************************************************************)
MaxConcEntries == 3

\* futurePublishedEvents on the evening of 2024-03-14: the match that kicked
\* off at 19:00 and the next two
ConcFeed ==
    { ApiEvent(ID_other, "GAK 1902 : LASK", Utc(DT(2024, 3, 14, 19, 0, 0))),
      ApiEvent(ID_2e9, "GAK 1902 : FC Blau-Weiss Linz", Utc(DT(2024, 3, 16, 18, 0, 0))),
      ApiEvent(ID_other2, "GAK 1902 : WAC", Text(DT(2024, 3, 23, 17, 0, 0), TRUE, 3600)) }

ConcNow == DT(2024, 3, 15, 0, 0, 0)

ConcEnv == [db |-> TRUE, reconnect |-> TRUE, template |-> TRUE]

CurrentStore == [events |-> events, entries |-> entries]

InitConc ==
    /\ events = <<>>
    /\ entries = <<>>
    /\ pc = "ingest"
    /\ page = NoPage
    /\ arg = NoArg
    /\ ret = NoRet

\* the other run: update_event and its commit, at any moment
ConcUpdate ==
    /\ Len(entries) < MaxConcEntries
    /\ \E event \in ConcFeed, sold \in StoreSold :
          update_event(event, [id |-> event.id, sold |-> sold, avail |-> 1000 - sold],
                       StoreClock(Len(entries)))
    /\ UNCHANGED <<pc, page, arg, ret>>

\* lines 185-283: connect, get_events, the entries of the future events; the
\* page is written here when there is nothing to show
ReadFuture ==
    /\ pc = "ingest"
    /\ \E early \in {generate_page(events, entries, ConcNow, ConcEnv, <<>>)} :
          \E written \in {early.stage \in {"connect", "no_events", "no_future"}} :
              /\ page' = IF written THEN early ELSE NoPage
              /\ pc' = IF written THEN "done" ELSE "season"
    /\ arg' = [fn |-> "generate_page", first |-> CurrentStore,
               second |-> CurrentStore, third |-> CurrentStore]
    /\ UNCHANGED <<events, entries, ret>>

\* lines 285-347: connect again, get_events, the entries and sparklines of
\* the season's events
ReadSeason ==
    /\ pc = "season"
    /\ pc' = "graph"
    /\ arg' = [arg EXCEPT !.second = CurrentStore]
    /\ UNCHANGED <<events, entries, page, ret>>

\* lines 349-391: generate_graph reads, the page is rendered and written
ReadGraph ==
    /\ pc = "graph"
    /\ \E selected \in get_events_for_graph(events, entries, ConcNow) :
          page' = generate_page_reads(arg.first, arg.second, CurrentStore,
                                      ConcNow, ConcEnv, selected)
    /\ pc' = "done"
    /\ arg' = [arg EXCEPT !.third = CurrentStore]
    /\ UNCHANGED <<events, entries, ret>>

NextConc == ConcUpdate \/ ReadFuture \/ ReadSeason \/ ReadGraph \/ NextRun

SpecConc == InitConc /\ [][NextConc]_vars

\* the store as it was when it held m events and n samples
StoreAt(m, n) == [events |-> SubSeq(events, 1, m), entries |-> SubSeq(entries, 1, n)]

\* C23: every figure of a written page is computed from one snapshot of the
\* store: the page is the one generate_page computes from a single state the
\* store went through.
C23_Original ==
    (pc = "done" /\ page.written) =>
        \E m \in 0..Len(events), n \in 0..Len(entries) :
            \E selected \in get_events_for_graph(StoreAt(m, n).events,
                                                 StoreAt(m, n).entries, ConcNow) :
                page = generate_page(StoreAt(m, n).events, StoreAt(m, n).entries,
                                     ConcNow, ConcEnv, selected)

====
